---- MODULE Spec2Model ----
(***************************************************************************)
(* A model of pyquake/progs.py: the decoder of a progs.dat byte stream     *)
(* (header, lumps, fixed-width records), the string and global lookups of  *)
(* the Progs aggregate, the statement disassembler and the dump report.    *)
(*                                                                         *)
(* Representation of Python values:                                        *)
(*   bytes / str      a sequence of integers 0..255 (byte or code point);  *)
(*                     text built by f-strings is a TLA+ string            *)
(*   8/16-bit fields  an integer                                           *)
(*   32-bit fields    a "wide" integer [hi, lo] of value hi * 65536 + lo,  *)
(*                     0 <= lo < 65536, since the values of an unsigned    *)
(*                     32-bit field exceed the model checker's integers    *)
(*   an exception     [err |-> <the exception's name>]                     *)
(***************************************************************************)
EXTENDS Integers, Sequences, FiniteSets, TLC

VARIABLES f,    \* the byte stream handed to a loader: [data, pos]
          pr,   \* the Progs aggregate built by Progs.load, or NoProgs
          ret,  \* the latest call and what it returned or raised
          out,  \* the lines printed by dump_progs_main so far
          pc    \* where the driving program stands: [at, num]

vars == <<f, pr, ret, out, pc>>

----------------------------------------------------------------------------
(* Wide integers: the values of 32-bit fields.                             *)

W(hi, lo) == [hi |-> hi, lo |-> lo]

\* The wide form of an integer the model checker can hold.
WInt(n) == W(n \div 65536, n % 65536)

WFits(w) == w.hi >= -32768 /\ w.hi <= 32767

\* The integer a wide value stands for, when it fits.
WVal(w) == w.hi * 65536 + w.lo

\* w < n, w == n and w < 0 for a wide w and a small integer n.
WLess(w, n) == IF WFits(w) THEN WVal(w) < n ELSE w.hi < 0

WEq(w, n) == WFits(w) /\ WVal(w) = n

WNeg(w) == w.hi < 0

Min(a, b) == IF a < b THEN a ELSE b

Max(a, b) == IF a > b THEN a ELSE b

----------------------------------------------------------------------------
(* Python slicing, s[i:] and s[i:j], on a sequence s.                      *)

\* The position a slice bound i (an integer) denotes in a sequence of
\* length n: negative bounds count from the end, all bounds are clamped.
SliceBound(i, n) == IF i < 0 THEN Max(n + i, 0) ELSE Min(i, n)

\* The same for a wide bound.
WSliceBound(w, n) == IF WFits(w) THEN SliceBound(WVal(w), n)
                     ELSE IF w.hi < 0 THEN 0 ELSE n

\* s[lo:hi] for positions already clamped.
SliceAt(s, lo, hi) == SubSeq(s, lo + 1, hi)

\* s[i:]
SliceFrom(s, i) == SliceAt(s, SliceBound(i, Len(s)), Len(s))

\* s[i:i + k] for a small k > 0
Slice(s, i, k) == SliceAt(s, SliceBound(i, Len(s)), SliceBound(i + k, Len(s)))

----------------------------------------------------------------------------
(* The byte stream: f.read(n), f.seek(pos).                                *)

\* A stream at its start. The position is a wide integer: f.seek() accepts
\* any offset a 32-bit field can hold.
Stream(data) == [data |-> data, pos |-> WInt(0)]

\* f.read(n): the next n bytes, fewer when the stream ends first, none (and
\* the position left where it is) when the position is at or past the end.
Read(s, n) ==
    IF WLess(s.pos, Len(s.data))
    THEN LET p == WVal(s.pos)
             k == Min(n, Len(s.data) - p)
         IN [bytes |-> SubSeq(s.data, p + 1, p + k),
             f |-> [s EXCEPT !.pos = WInt(p + k)]]
    ELSE [bytes |-> <<>>, f |-> s]

\* f.read(n) for a wide n >= 0.
WRead(s, n) == Read(s, IF WFits(n) THEN WVal(n) ELSE Len(s.data))

\* f.seek(w) for a wide w >= 0: the position becomes w, past the end or not.
Seek(s, w) == [s EXCEPT !.pos = w]

----------------------------------------------------------------------------
(* struct.calcsize and struct.unpack for little-endian ("<") formats. A    *)
(* format is the sequence of its field codes.                              *)

FieldSize(code) == CASE code = "B" -> 1
                     [] code = "H" -> 2
                     [] code = "h" -> 2
                     [] code = "L" -> 4
                     [] code = "l" -> 4
                     [] code = "f" -> 4

RECURSIVE calcsize(_)
calcsize(fmt) == IF fmt = <<>> THEN 0
                 ELSE FieldSize(Head(fmt)) + calcsize(Tail(fmt))

U16(b) == b[1] + 256 * b[2]

S16(b) == IF U16(b) >= 32768 THEN U16(b) - 65536 ELSE U16(b)

\* One field decoded from its bytes b.
Field(code, b) == CASE code = "B" -> b[1]
                    [] code = "H" -> U16(b)
                    [] code = "h" -> S16(b)
                    [] code = "L" -> W(U16(SubSeq(b, 3, 4)), U16(SubSeq(b, 1, 2)))
                    [] code = "l" -> W(S16(SubSeq(b, 3, 4)), U16(SubSeq(b, 1, 2)))
                    [] code = "f" -> [f32 |-> W(U16(SubSeq(b, 3, 4)),
                                                U16(SubSeq(b, 1, 2)))]

\* struct.unpack(fmt, bytes): struct.error unless the buffer has exactly
\* calcsize(fmt) bytes.
unpack(fmt, bytes) ==
    IF Len(bytes) # calcsize(fmt)
    THEN [err |-> "struct.error"]
    ELSE [err |-> "",
          val |-> [i \in 1..Len(fmt) |->
                     Field(fmt[i],
                           SubSeq(bytes, calcsize(SubSeq(fmt, 1, i - 1)) + 1,
                                  calcsize(SubSeq(fmt, 1, i))))]]

\* _read_struct(fmt, f): the read moves the stream even when the unpack fails.
read_struct(fmt, s) ==
    LET r == Read(s, calcsize(fmt))
        u == unpack(fmt, r.bytes)
    IN IF u.err # "" THEN [err |-> u.err, f |-> r.f]
       ELSE [err |-> "", val |-> u.val, f |-> r.f]

----------------------------------------------------------------------------
(* The enumerations. A member is held by its name; its value is its place. *)

MAX_PARMS == 8

\* class Op(enum.IntEnum): DONE = 0, then enum.auto() for every later member.
OpMembers ==
    <<"DONE", "MUL_F", "MUL_V", "MUL_FV", "MUL_VF", "DIV_F", "ADD_F",
      "ADD_V", "SUB_F", "SUB_V", "EQ_F", "EQ_V", "EQ_S", "EQ_E", "EQ_FNC",
      "NE_F", "NE_V", "NE_S", "NE_E", "NE_FNC", "LE", "GE", "LT", "GT",
      "LOAD_F", "LOAD_V", "LOAD_S", "LOAD_ENT", "LOAD_FLD", "LOAD_FNC",
      "ADDRESS", "STORE_F", "STORE_V", "STORE_S", "STORE_ENT", "STORE_FLD",
      "STORE_FNC", "STOREP_F", "STOREP_V", "STOREP_S", "STOREP_ENT",
      "STOREP_FLD", "STOREP_FNC", "RETURN", "NOT_F", "NOT_V", "NOT_S",
      "NOT_ENT", "NOT_FNC", "IF", "IFNOT", "CALL0", "CALL1", "CALL2",
      "CALL3", "CALL4", "CALL5", "CALL6", "CALL7", "CALL8", "STATE",
      "GOTO", "AND", "OR", "BITAND", "BITOR">>

OpValue(name) == CHOOSE n \in 0..(Len(OpMembers) - 1) : OpMembers[n + 1] = name

\* Op(n): the member of value n, ValueError when there is none.
Op(n) == IF n >= 0 /\ n < Len(OpMembers)
         THEN [err |-> "", val |-> OpMembers[n + 1]]
         ELSE [err |-> "ValueError"]

\* class Type(enum.IntEnum): BAD = -1, then enum.auto(): VOID = 0, ...
TypeMembers ==
    <<"BAD", "VOID", "STRING", "FLOAT", "VECTOR", "ENTITY", "FIELD",
      "FUNCTION", "POINTER">>

TypeValue(name) ==
    (CHOOSE n \in 1..Len(TypeMembers) : TypeMembers[n] = name) - 2

\* Type(n): the member of value n, ValueError when there is none.
Type(n) == IF n >= -1 /\ n < Len(TypeMembers) - 1
           THEN [err |-> "", val |-> TypeMembers[n + 2]]
           ELSE [err |-> "ValueError"]

\* Type.format(): self.name.lower()
Type_format(name) == CASE name = "BAD" -> "bad"
                       [] name = "VOID" -> "void"
                       [] name = "STRING" -> "string"
                       [] name = "FLOAT" -> "float"
                       [] name = "VECTOR" -> "vector"
                       [] name = "ENTITY" -> "entity"
                       [] name = "FIELD" -> "field"
                       [] name = "FUNCTION" -> "function"
                       [] name = "POINTER" -> "pointer"

\* The keys of _BINARY_OPS.
BinaryOpKeys ==
    {"ADD_F", "SUB_F", "MUL_F", "DIV_F", "ADD_V", "SUB_V", "MUL_V",
     "MUL_VF", "MUL_FV", "BITAND", "BITOR", "GE", "LE", "GT", "LT", "AND",
     "OR", "EQ_F", "EQ_V", "EQ_S", "EQ_E", "EQ_FNC", "NE_F", "NE_V",
     "NE_S", "NE_E", "NE_FNC"}

\* _BINARY_OPS[op]: (op_str, c_type, a_type, b_type)
BINARY_OPS(op) ==
    CASE op = "ADD_F" -> <<"+", "FLOAT", "FLOAT", "FLOAT">>
      [] op = "SUB_F" -> <<"-", "FLOAT", "FLOAT", "FLOAT">>
      [] op = "MUL_F" -> <<"*", "FLOAT", "FLOAT", "FLOAT">>
      [] op = "DIV_F" -> <<"/", "FLOAT", "FLOAT", "FLOAT">>
      [] op = "ADD_V" -> <<"+", "VECTOR", "VECTOR", "VECTOR">>
      [] op = "SUB_V" -> <<"-", "VECTOR", "VECTOR", "VECTOR">>
      [] op = "MUL_V" -> <<"*", "VECTOR", "VECTOR", "VECTOR">>
      [] op = "MUL_VF" -> <<"*vf", "VECTOR", "FLOAT", "VECTOR">>
      [] op = "MUL_FV" -> <<"*fv", "VECTOR", "VECTOR", "FLOAT">>
      [] op = "BITAND" -> <<"&", "FLOAT", "FLOAT", "FLOAT">>
      [] op = "BITOR" -> <<"|", "FLOAT", "FLOAT", "FLOAT">>
      [] op = "GE" -> <<">=", "FLOAT", "FLOAT", "FLOAT">>
      [] op = "LE" -> <<"<=", "FLOAT", "FLOAT", "FLOAT">>
      [] op = "GT" -> <<">", "FLOAT", "FLOAT", "FLOAT">>
      [] op = "LT" -> <<"<", "FLOAT", "FLOAT", "FLOAT">>
      [] op = "AND" -> <<"&&", "FLOAT", "FLOAT", "FLOAT">>
      [] op = "OR" -> <<"||", "FLOAT", "FLOAT", "FLOAT">>
      [] op = "EQ_F" -> <<"==", "FLOAT", "FLOAT", "FLOAT">>
      [] op = "EQ_V" -> <<"==", "FLOAT", "VECTOR", "VECTOR">>
      [] op = "EQ_S" -> <<"==", "FLOAT", "STRING", "STRING">>
      [] op = "EQ_E" -> <<"==", "FLOAT", "ENTITY", "ENTITY">>
      [] op = "EQ_FNC" -> <<"==", "FLOAT", "FUNCTION", "FUNCTION">>
      [] op = "NE_F" -> <<"!=", "FLOAT", "FLOAT", "FLOAT">>
      [] op = "NE_V" -> <<"!=", "FLOAT", "VECTOR", "VECTOR">>
      [] op = "NE_S" -> <<"!=", "FLOAT", "STRING", "STRING">>
      [] op = "NE_E" -> <<"!=", "FLOAT", "ENTITY", "ENTITY">>
      [] op = "NE_FNC" -> <<"!=", "FLOAT", "FUNCTION", "FUNCTION">>

----------------------------------------------------------------------------
(* The record loaders. Each returns [err, val, f]: the exception raised    *)
(* ("" for none), the record built, and the stream as the call left it.    *)

Repeat(x, n) == [i \in 1..n |-> x]

\* Function.load(f)
Function_load(s) ==
    LET r1 == read_struct(<<"L", "L", "L", "L", "L", "L">>, s)
        r2 == read_struct(<<"L">>, r1.f)
        r3 == read_struct(Repeat("B", MAX_PARMS), r2.f)
        num_parms == r2.val[1]
    IN IF r1.err # "" THEN [err |-> r1.err, f |-> r1.f]
       ELSE IF r2.err # "" THEN [err |-> r2.err, f |-> r2.f]
       ELSE IF r3.err # "" THEN [err |-> r3.err, f |-> r3.f]
       ELSE [err |-> "",
             val |-> [first_statement |-> r1.val[1],
                      parm_start |-> r1.val[2],
                      locals_ |-> r1.val[3],
                      profile |-> r1.val[4],
                      s_name |-> r1.val[5],
                      s_file |-> r1.val[6],
                      parm_size |->
                          SliceAt(r3.val, 0,
                                  WSliceBound(num_parms, Len(r3.val)))],
             f |-> r3.f]

\* Statement.load with the operands read as unsigned ("<HHHH").
Statement_load_unsigned(s) ==
    LET r == read_struct(<<"H", "H", "H", "H">>, s)
        op == Op(r.val[1])
    IN IF r.err # "" THEN [err |-> r.err, f |-> r.f]
       ELSE IF op.err # "" THEN [err |-> op.err, f |-> r.f]
       ELSE [err |-> "",
             val |-> [op |-> op.val, a |-> r.val[2], b |-> r.val[3],
                      c |-> r.val[4]],
             f |-> r.f]

\* Statement.load(f)
Statement_load(s) ==
    LET r == read_struct(<<"H", "h", "h", "h">>, s)
        op == Op(r.val[1])
    IN IF r.err # "" THEN [err |-> r.err, f |-> r.f]
       ELSE IF op.err # "" THEN [err |-> op.err, f |-> r.f]
       ELSE [err |-> "",
             val |-> [op |-> op.val, a |-> r.val[2], b |-> r.val[3],
                      c |-> r.val[4]],
             f |-> r.f]

\* Statement.format with the operands a and b taken for each other.
Statement_format_swapped(st) ==
    IF st.op \in BinaryOpKeys
    THEN LET e == BINARY_OPS(st.op)
         IN "*(" \o Type_format(e[2]) \o "*)" \o ToString(st.c) \o " ="
            \o " *(" \o Type_format(e[3]) \o "*)" \o ToString(st.b)
            \o " " \o e[1]
            \o " *(" \o Type_format(e[4]) \o "*)" \o ToString(st.a)
    ELSE "(<Op." \o st.op \o ": " \o ToString(OpValue(st.op)) \o ">, "
         \o ToString(st.a) \o ", " \o ToString(st.b) \o ", "
         \o ToString(st.c) \o ")"

\* Statement.format(): the f-string of a binary operator, the str() of the
\* tuple (op, a, b, c) otherwise.
Statement_format(st) ==
    IF st.op \in BinaryOpKeys
    THEN LET e == BINARY_OPS(st.op)
             op_str == e[1]
             c_type == e[2]
             a_type == e[3]
             b_type == e[4]
         IN "*(" \o Type_format(c_type) \o "*)" \o ToString(st.c) \o " ="
            \o " *(" \o Type_format(a_type) \o "*)" \o ToString(st.a)
            \o " " \o op_str
            \o " *(" \o Type_format(b_type) \o "*)" \o ToString(st.b)
    ELSE "(<Op." \o st.op \o ": " \o ToString(OpValue(st.op)) \o ">, "
         \o ToString(st.a) \o ", " \o ToString(st.b) \o ", "
         \o ToString(st.c) \o ")"

\* type_ & (1 << 15) != 0 and type_ & ~(1 << 15) on an unsigned 16-bit value.
Bit15(v) == (v \div 32768) % 2 = 1

\* The mask left out: the packed field taken for the type as it is.
ClearBit15_unmasked(v) == v

ClearBit15(v) == IF Bit15(v) THEN v - 32768 ELSE v

\* Definition.load(f)
Definition_load(s) ==
    LET r == read_struct(<<"H", "H", "l">>, s)
        save_global == Bit15(r.val[1])
        type_ == Type(ClearBit15(r.val[1]))
    IN IF r.err # "" THEN [err |-> r.err, f |-> r.f]
       ELSE IF type_.err # "" THEN [err |-> type_.err, f |-> r.f]
       ELSE [err |-> "",
             val |-> [type_ |-> type_.val, save_global |-> save_global,
                      ofs |-> r.val[2], s_name |-> r.val[3]],
             f |-> r.f]

----------------------------------------------------------------------------
(* The Progs aggregate and its lookups.                                    *)

NoProgs == [version |-> "none"]

\* str(n) for a wide n >= 0: the decimal digits, by long division by ten.
RECURSIVE WToString(_)
WToString(w) ==
    LET t == (w.hi % 10) * 65536 + w.lo
        rest == W(w.hi \div 10, t \div 10)
    IN IF w.hi = 0 /\ w.lo < 10 THEN ToString(w.lo)
       ELSE WToString(rest) \o ToString(t % 10)

\* s.index(x): the first position (from 0) of x in s, which holds it.
Index(s, x) == (CHOOSE i \in 1..Len(s) :
                    s[i] = x /\ \A j \in 1..(i - 1) : s[j] # x) - 1

Contains(s, x) == \E i \in 1..Len(s) : s[i] = x

\* read_string with the NUL looked for from the start of the buffer.
read_string_from_start(p, i) ==
    LET out1 == SliceAt(p.strings, WSliceBound(i, Len(p.strings)),
                        Len(p.strings))
    IN IF Contains(p.strings, 0)
       THEN SliceAt(out1, 0, Min(Index(p.strings, 0), Len(out1)))
       ELSE out1

\* Progs.read_string(i): i is a wide integer.
read_string(p, i) ==
    LET out1 == SliceAt(p.strings, WSliceBound(i, Len(p.strings)),
                        Len(p.strings))
    IN IF Contains(out1, 0) THEN SliceAt(out1, 0, Index(out1, 0)) ELSE out1

\* The bound of the function table taken one too low.
func_or_invalid_low(p, func_idx) ==
    IF WLess(func_idx, Len(p.functions) - 1)
    THEN [err |-> "", kind |-> "Function",
          val |-> p.functions[WVal(func_idx) + 1]]
    ELSE [err |-> "", kind |-> "text",
          val |-> "Invalid func " \o WToString(func_idx)]

\* The FUNCTION branch of read_global once func_idx is unpacked: the
\* function of that index, or the text naming the index.
func_or_invalid(p, func_idx) ==
    IF WLess(func_idx, Len(p.functions))
    THEN [err |-> "", kind |-> "Function",
          val |-> p.functions[WVal(func_idx) + 1]]
    ELSE [err |-> "", kind |-> "text",
          val |-> "Invalid func " \o WToString(func_idx)]

\* Progs.read_global(num, type_): [err, kind, val]; kind is the kind of the
\* Python value returned ("text" for a str built by an f-string).
read_global(p, num, type_) ==
    LET u4 == unpack(<<"L">>, Slice(p.globals_, num, 4))
        f4 == unpack(<<"f">>, Slice(p.globals_, num, 4))
        f12 == unpack(<<"f", "f", "f">>, Slice(p.globals_, num, 12))
    IN CASE type_ = "STRING" ->
              IF u4.err # "" THEN [err |-> u4.err]
              ELSE [err |-> "", kind |-> "string",
                    val |-> read_string(p, u4.val[1])]
         [] type_ = "FLOAT" ->
              IF f4.err # "" THEN [err |-> f4.err]
              ELSE [err |-> "", kind |-> "float", val |-> f4.val[1]]
         [] type_ = "VECTOR" ->
              IF f12.err # "" THEN [err |-> f12.err]
              ELSE [err |-> "", kind |-> "vector", val |-> f12.val]
         [] type_ = "ENTITY" ->
              IF u4.err # "" THEN [err |-> u4.err]
              ELSE [err |-> "", kind |-> "int", val |-> u4.val[1]]
         [] type_ = "FUNCTION" ->
              IF u4.err # "" THEN [err |-> u4.err]
              ELSE func_or_invalid(p, u4.val[1])
         [] OTHER ->
              [err |-> "", kind |-> "text",
               val |-> "Unhandled type: " \o ToString(TypeValue(type_))]

\* The six (offset, count) pairs of the header, read one pair at a time.
RECURSIVE load_offsets(_, _, _)
load_offsets(s, n, acc) ==
    IF n = 0 THEN [err |-> "", val |-> acc, f |-> s]
    ELSE LET r == read_struct(<<"L", "L">>, s)
         IN IF r.err # "" THEN [err |-> r.err, f |-> r.f]
            ELSE load_offsets(r.f, n - 1,
                              Append(acc, [offset |-> r.val[1],
                                           count |-> r.val[2]]))

load_record(kind, s) == CASE kind = "Function" -> Function_load(s)
                          [] kind = "Statement" -> Statement_load(s)
                          [] kind = "Definition" -> Definition_load(s)

\* [X.load(f) for _ in range(count)], count a wide integer >= 0: the first
\* exception ends the loop. load_list_next takes what one X.load returned.
RECURSIVE load_list(_, _, _, _)
RECURSIVE load_list_next(_, _, _, _)
load_list(kind, s, count, acc) ==
    IF WEq(count, Len(acc)) THEN [err |-> "", val |-> acc, f |-> s]
    ELSE load_list_next(kind, load_record(kind, s), count, acc)

load_list_next(kind, r, count, acc) ==
    IF r.err # "" THEN [err |-> r.err, f |-> r.f]
    ELSE load_list(kind, r.f, count, Append(acc, r.val))

\* bytes.decode('ascii')
decode_ascii(bytes) ==
    IF \E i \in 1..Len(bytes) : bytes[i] > 127
    THEN [err |-> "UnicodeDecodeError"]
    ELSE [err |-> "", val |-> bytes]

\* The record p with field k set to v.
With(p, k, v) == [x \in DOMAIN p \cup {k} |-> IF x = k THEN v ELSE p[x]]

Raised(r) == [err |-> r.err, f |-> r.f]

\* Progs.load(f): [err, val, f]. The header's order of the lumps is
\* statements, global_defs, field_defs, functions, strings, globals; they
\* are read in the order strings, globals, functions, statements,
\* global_defs, field_defs. Each step below takes the fields built so far
\* (p), the header's pairs (offsets) and what the read before it returned.
after_field_defs(p, fds) ==
    IF fds.err # "" THEN Raised(fds)
    ELSE [err |-> "", val |-> With(p, "field_defs", fds.val), f |-> fds.f]

after_global_defs(p, offsets, gds) ==
    IF gds.err # "" THEN Raised(gds)
    ELSE after_field_defs(With(p, "global_defs", gds.val),
                          load_list("Definition",
                                    Seek(gds.f, offsets[3].offset),
                                    offsets[3].count, <<>>))

after_statements(p, offsets, sts) ==
    IF sts.err # "" THEN Raised(sts)
    ELSE after_global_defs(With(p, "statements", sts.val), offsets,
                           load_list("Definition",
                                     Seek(sts.f, offsets[2].offset),
                                     offsets[2].count, <<>>))

after_functions(p, offsets, fns) ==
    IF fns.err # "" THEN Raised(fns)
    ELSE after_statements(With(p, "functions", fns.val), offsets,
                          load_list("Statement",
                                    Seek(fns.f, offsets[1].offset),
                                    offsets[1].count, <<>>))

\* globals_ = f.read(count): the bytes there are, however few.
after_globals(p, offsets, rg) ==
    after_functions(With(p, "globals_", rg.bytes), offsets,
                    load_list("Function", Seek(rg.f, offsets[4].offset),
                              offsets[4].count, <<>>))

after_decode(p, offsets, strings, s) ==
    IF strings.err # "" THEN [err |-> strings.err, f |-> s]
    ELSE after_globals(With(p, "strings", strings.val), offsets,
                       WRead(Seek(s, offsets[6].offset), offsets[6].count))

\* strings = f.read(count).decode('ascii'): the bytes there are, however few.
after_strings(p, offsets, rs) ==
    after_decode(p, offsets, decode_ascii(rs.bytes), rs.f)

after_offsets(p, o) ==
    IF o.err # "" THEN Raised(o)
    ELSE after_strings(p, o.val,
                       WRead(Seek(o.f, o.val[5].offset), o.val[5].count))

after_header(h) ==
    IF h.err # "" THEN Raised(h)
    ELSE after_offsets([version |-> h.val[1], crc |-> h.val[2]],
                       load_offsets(h.f, 6, <<>>))

Progs_load(s) == after_header(read_struct(<<"L", "L">>, s))

\* Function.name, Function.file, Definition.name
Function_name(p, fn) == read_string(p, fn.s_name)

Function_file(p, fn) == read_string(p, fn.s_file)

Definition_name(p, d) == read_string(p, d.s_name)

\* statement_funcs = {func.first_statement: func for func in pr.functions}:
\* a later function replaces an earlier one under the same key. The entry
\* of statement number num is the last function that starts there.
InStatementFuncs(p, num) ==
    \E i \in 1..Len(p.functions) : WEq(p.functions[i].first_statement, num)

StatementFuncs(p, num) ==
    LET i == CHOOSE i \in 1..Len(p.functions) :
                 /\ WEq(p.functions[i].first_statement, num)
                 /\ \A j \in (i + 1)..Len(p.functions) :
                        ~WEq(p.functions[j].first_statement, num)
    IN p.functions[i]

----------------------------------------------------------------------------
(* Inputs: byte streams in the wire format, built from field values.       *)

\* struct.pack of one field: "<H", "<h", "<L" (from a wide value).
PackH(v) == <<v % 256, v \div 256>>

Packh(v) == PackH(v % 65536)

PackL(w) == PackH(w.lo) \o PackH(w.hi % 65536)

\* Opcode fields tried: 0..MaxOpInt and some with a high byte.
MaxOpInt == 67

OpInts == 0..MaxOpInt \cup {255, 256, 322, 65535}

Operands == {-32768, -1, 1, 2, 3, 32767}

StatementBytes(op, a, b, c) == PackH(op) \o Packh(a) \o Packh(b) \o Packh(c)

StatementData ==
    {StatementBytes(op, a, b, c) : op \in OpInts, a \in Operands,
                                   b \in {-1, 2, 32767}, c \in {-32768, 3}}

\* 32-bit fields tried: small values, both sides of 2^31, the largest.
Words == {WInt(0), WInt(1), WInt(2), W(32767, 65535), W(32768, 0),
          W(65535, 65534), W(65535, 65535)}

\* num_parms fields tried: 0..MaxNumParms and some large ones.
MaxNumParms == 10

NumParms == {WInt(n) : n \in 0..MaxNumParms}
            \cup {WInt(256), W(1, 0), W(32768, 3), W(65535, 65535)}

ParmSizes == {<<4, 4, 4, 0, 0, 0, 0, 0>>, <<1, 2, 3, 4, 5, 6, 7, 8>>}

FunctionBytes(fs, rest, np, sizes) ==
    PackL(fs) \o PackL(rest[1]) \o PackL(rest[2]) \o PackL(rest[3])
    \o PackL(rest[4]) \o PackL(rest[5]) \o PackL(np) \o sizes

FunctionData ==
    {FunctionBytes(fs, rest, np, sizes) :
        fs \in Words,
        rest \in {<<WInt(1), WInt(2), WInt(3), WInt(4), WInt(5)>>,
                  <<W(65535, 65531), W(32768, 2), W(40000, 3), W(65535, 4),
                    W(50000, 5)>>},
        np \in NumParms, sizes \in ParmSizes}

\* Packed type fields tried: 0..MaxTypeInt with and without bit 15, and the
\* all-ones values.
MaxTypeInt == 9

PackedTypes == 0..MaxTypeInt \cup {32768 + n : n \in 0..MaxTypeInt}
               \cup {255, 256, 32767, 65535, 32768 + 256}

DefinitionBytes(packed, ofs, s_name) ==
    PackH(packed) \o PackH(ofs) \o PackL(s_name)

DefinitionData ==
    {DefinitionBytes(p, ofs, s) : p \in PackedTypes, ofs \in {0, 7, 65535},
                                   s \in {WInt(0), WInt(5), W(65535, 65535),
                                          W(32768, 0)}}

\* A record cut short by its last byte or bytes.
CutShort(d, n) == SubSeq(d, 1, Len(d) - n)

RecordData ==
    StatementData \cup FunctionData \cup DefinitionData
    \cup {CutShort(StatementBytes(6, 1, 2, 3), n) : n \in {1, 8}}
    \cup {CutShort(FunctionBytes(WInt(0), <<WInt(1), WInt(2), WInt(3),
                                            WInt(4), WInt(5)>>,
                                 WInt(3), <<4, 4, 4, 0, 0, 0, 0, 0>>), n) :
             n \in {1, 8, 9, 12, 36}}
    \cup {CutShort(DefinitionBytes(2, 0, WInt(0)), n) : n \in {1, 8}}

----------------------------------------------------------------------------
(* The record loaders and the disassembler, each applied to a stream.      *)

NoCall == [call |-> "none"]

\* A position of the driving program: a place and a loop counter.
At(at, num) == [at |-> at, num |-> num]

\* What a call returned or raised.
Result(call, r) == IF r.err # "" THEN [call |-> call, err |-> r.err]
                   ELSE [call |-> call, err |-> "", val |-> r.val]

InitRecords ==
    /\ f \in {Stream(d) : d \in RecordData}
    /\ pr = NoProgs
    /\ ret = NoCall
    /\ out = <<>>
    /\ pc = At("start", 0)

StatementLoad ==
    /\ pc.at = "start"
    /\ LET r == Statement_load(f)
       IN f' = r.f /\ ret' = Result("Statement.load", r)
    /\ pc' = At("called", 0)
    /\ UNCHANGED <<pr, out>>

FunctionLoad ==
    /\ pc.at = "start"
    /\ LET r == Function_load(f)
       IN f' = r.f /\ ret' = Result("Function.load", r)
    /\ pc' = At("called", 0)
    /\ UNCHANGED <<pr, out>>

DefinitionLoad ==
    /\ pc.at = "start"
    /\ LET r == Definition_load(f)
       IN f' = r.f /\ ret' = Result("Definition.load", r)
    /\ pc' = At("called", 0)
    /\ UNCHANGED <<pr, out>>

\* statement.format() on the Statement just loaded.
StatementFormat ==
    /\ pc.at = "called"
    /\ ret.call = "Statement.load"
    /\ ret.err = ""
    /\ ret' = [call |-> "Statement.format", err |-> "",
               val |-> Statement_format(ret.val), self |-> ret.val]
    /\ pc' = At("formatted", 0)
    /\ UNCHANGED <<f, pr, out>>

NextRecords == StatementLoad \/ FunctionLoad \/ DefinitionLoad
               \/ StatementFormat

SpecRecords == InitRecords /\ [][NextRecords]_vars

----------------------------------------------------------------------------
(* Inputs: progs.dat images. An image is the header followed by the lumps  *)
(* in the header's order, possibly cut short.                              *)

MaxFuncs == 2

MaxStmts == 2

MaxDefs == 2

FirstStatements == {WInt(0), WInt(1), W(65535, 65535)}

\* The first_statement fields of an image's functions.
FuncLists == UNION {[1..n -> FirstStatements] : n \in 0..MaxFuncs}

\* Function number i: its name starts at offset i - 1 of the strings, its
\* file at offset i + 3, so the functions of an image differ in both.
FuncBytes(i, fs) ==
    FunctionBytes(fs, <<WInt(10 * i), WInt(2), WInt(0), WInt(i - 1),
                        WInt(i + 3)>>,
                  WInt(1), <<4, 0, 0, 0, 0, 0, 0, 0>>)

\* Statement number i: ADD_F and CALL1 in turn.
StmtBytes(i) == StatementBytes(IF i % 2 = 1 THEN 6 ELSE 52, i, 2, 3)

\* Definition number i, at global offset 4 * (i - 1): float (saved),
\* function, string, vector, entity, void in turn; the second one's name
\* offset is negative.
DefBytes(i) ==
    DefinitionBytes(<<32770, 6, 1, 3, 4, 0>>[((i - 1) % 6) + 1], 4 * (i - 1),
                    IF i = 2 THEN W(-1, 65533) ELSE WInt(i - 1))

\* The concatenation of a sequence of byte sequences.
RECURSIVE Flatten(_)
Flatten(ss) == IF ss = <<>> THEN <<>> ELSE Head(ss) \o Flatten(Tail(ss))

\* "foo\0bar" and "\0ab\0c.q\0"
StringsChoices == {<<102, 111, 111, 0, 98, 97, 114>>,
                   <<0, 97, 98, 0, 99, 46, 113, 0>>}

\* The float 1.0 and the function indexes 1 and 2; the index 0 and the
\* largest index.
GlobalsChoices == {<<0, 0, 128, 63, 1, 0, 0, 0, 2, 0, 0, 0>>,
                   <<0, 0, 0, 0, 255, 255, 255, 255>>}

\* The lumps of an image in the header's order: statements, global_defs,
\* field_defs, functions, strings, globals. Each is [data, count].
Lumps(funcs, nstmts, ndefs, strings, globals) ==
    << [data |-> Flatten([i \in 1..nstmts |-> StmtBytes(i)]),
          count |-> nstmts],
       [data |-> Flatten([i \in 1..ndefs |-> DefBytes(i)]), count |-> ndefs],
       [data |-> DefBytes(5), count |-> 1],
       [data |-> Flatten([i \in 1..Len(funcs) |-> FuncBytes(i, funcs[i])]),
          count |-> Len(funcs)],
       [data |-> strings, count |-> Len(strings)],
       [data |-> globals, count |-> Len(globals)] >>

\* The header: version and crc, then six (offset, count) pairs.
HeaderSize == calcsize(<<"L", "L">>) + 6 * calcsize(<<"L", "L">>)

\* Where lump k starts and ends in the image.
RECURSIVE LumpStart(_, _)
LumpStart(lumps, k) ==
    IF k = 1 THEN HeaderSize
    ELSE LumpStart(lumps, k - 1) + Len(lumps[k - 1].data)

LumpEnd(lumps, k) == LumpStart(lumps, k) + Len(lumps[k].data)

Image(lumps) ==
    LET entry(k) == PackL(WInt(LumpStart(lumps, k)))
                    \o PackL(WInt(lumps[k].count))
    IN PackL(WInt(6)) \o PackL(W(1, 2))
       \o Flatten([k \in 1..6 |-> entry(k)])
       \o lumps[1].data \o lumps[2].data \o lumps[3].data
       \o lumps[4].data \o lumps[5].data \o lumps[6].data

\* The lengths an image is cut to: nothing, a header one byte short, and
\* each lump one byte short (or the whole image when the lump is empty).
CutLengths(lumps) == {0, HeaderSize - 1, LumpEnd(lumps, 6)}
                     \cup {LumpEnd(lumps, k) - 1 : k \in 1..6}

ImagesOf(lumps) ==
    UNION {{SubSeq(Image(l), 1, n) : n \in CutLengths(l)} : l \in lumps}

\* The images the lookups run on: 0..MaxFuncs functions, one statement, one
\* definition.
LookupImages ==
    ImagesOf({Lumps([i \in 1..n |-> WInt(i - 1)], 1, 1, s, g) :
                 n \in 0..MaxFuncs, s \in StringsChoices,
                 g \in GlobalsChoices})

\* The images the report is printed of.
DumpImages ==
    ImagesOf({Lumps(fl, ns, nd, s, g) :
                 fl \in FuncLists, ns \in 0..MaxStmts, nd \in 0..MaxDefs,
                 s \in StringsChoices, g \in GlobalsChoices})

----------------------------------------------------------------------------
(* Progs.load, the lookups on the loaded aggregate, and dump_progs_main's  *)
(* report, one printed line (or group of lines) at a time.                 *)

\* String offsets looked up: around both ends of the buffer, and far out.
MaxStringOffset == 9

StringOffsets == {WInt(i) : i \in (0 - MaxStringOffset)..MaxStringOffset}
                 \cup {W(-32768, 0), W(32767, 65535), W(65535, 65535)}

\* Global offsets looked up: on the buffer and off it at both ends.
MaxGlobalOffset == 13

GlobalOffsets == -2..MaxGlobalOffset \cup {65535}

Init ==
    /\ f \in {Stream(d) : d \in LookupImages}
    /\ pr = NoProgs
    /\ ret = NoCall
    /\ out = <<>>
    /\ pc = At("start", 0)

\* pr = Progs.load(f); an exception ends the program.
Load ==
    /\ pc.at = "start"
    /\ LET r == Progs_load(f)
       IN /\ f' = r.f
          /\ ret' = [call |-> "Progs.load", err |-> r.err]
          /\ pr' = IF r.err = "" THEN r.val ELSE NoProgs
          /\ pc' = IF r.err = "" THEN At("loaded", 0) ELSE At("raised", 0)
    /\ UNCHANGED out

\* pr.read_string(i)
ReadString ==
    /\ pc.at = "loaded"
    /\ \E i \in StringOffsets :
          ret' = [call |-> "read_string", i |-> i, err |-> "",
                  val |-> read_string(pr, i)]
    /\ UNCHANGED <<f, pr, out, pc>>

\* pr.read_global(num, type_)
ReadGlobal ==
    /\ pc.at = "loaded"
    /\ \E num \in GlobalOffsets :
          \E n \in 1..Len(TypeMembers) :
             ret' = [call |-> "read_global", num |-> num,
                     type_ |-> TypeMembers[n],
                     res |-> read_global(pr, num, TypeMembers[n])]
    /\ UNCHANGED <<f, pr, out, pc>>

\* The place of the report after the loop at `at` has done num rounds:
\* a finished loop gives way to the next one.
RECURSIVE After(_, _, _)
After(p, at, num) ==
    CASE at = "statements" /\ num >= Len(p.statements) ->
            After(p, "globals", 0)
      [] at = "globals" /\ num >= Len(p.global_defs) -> At("done", 0)
      [] OTHER -> At(at, num)

\* for func in pr.functions: print(func.name, func.file)
DumpFunctions ==
    /\ pc.at = "loaded"
    /\ out' = [i \in 1..Len(pr.functions) |->
                 [kind |-> "func",
                  name |-> Function_name(pr, pr.functions[i]),
                  file |-> Function_file(pr, pr.functions[i])]]
    /\ pc' = After(pr, "statements", 0)
    /\ UNCHANGED <<f, pr, ret>>

\* One round of the loop over enumerate(pr.statements).
DumpStatement ==
    /\ pc.at = "statements"
    /\ LET num == pc.num
           statement == pr.statements[num + 1]
           func == StatementFuncs(pr, num)
           comment == IF InStatementFuncs(pr, num)
                      THEN <<[kind |-> "comment",
                              file |-> Function_file(pr, func),
                              name |-> Function_name(pr, func)]>>
                      ELSE <<>>
       IN /\ out' = out \o comment
                    \o <<[kind |-> "stmt",
                          text |-> Statement_format(statement)]>>
          /\ pc' = After(pr, "statements", num + 1)
    /\ UNCHANGED <<f, pr, ret>>

\* One round of the loop over pr.global_defs; an exception of read_global
\* ends the program.
DumpGlobal ==
    /\ pc.at = "globals"
    /\ LET d == pr.global_defs[pc.num + 1]
           g == read_global(pr, d.ofs, d.type_)
       IN IF g.err # ""
          THEN /\ ret' = [call |-> "dump_progs_main", err |-> g.err]
               /\ pc' = At("raised", 0)
               /\ out' = out
          ELSE /\ out' = Append(out, [kind |-> "global", type_ |-> d.type_,
                                      name |-> Definition_name(pr, d),
                                      ofs |-> d.ofs, value |-> g])
               /\ pc' = After(pr, "globals", pc.num + 1)
               /\ ret' = ret
    /\ UNCHANGED <<f, pr>>

\* The aggregate and its lookups.
Next == Load \/ ReadString \/ ReadGlobal

Spec == Init /\ [][Next]_vars

\* dump_progs_main: the load, then the report.
InitDump ==
    /\ f \in {Stream(d) : d \in DumpImages}
    /\ pr = NoProgs
    /\ ret = NoCall
    /\ out = <<>>
    /\ pc = At("start", 0)

NextDump == Load \/ DumpFunctions \/ DumpStatement \/ DumpGlobal

SpecDump == InitDump /\ [][NextDump]_vars

----------------------------------------------------------------------------
(* The claims. A call's input is still in the state when it has returned:  *)
(* f.data is the stream the loader read, ret holds the lookup's arguments. *)

\* The little-endian value of the 16 bits at bytes i, i + 1 (from 1) of d.
RawU16(d, i) == d[i] + 256 * d[i + 1]

RawS16(d, i) == IF d[i + 1] >= 128 THEN RawU16(d, i) - 65536
                ELSE RawU16(d, i)

\* C1, as claimed: a statement whose op is a key of the binary-operator
\* table formats to "*(<resultType> *)<c> = *(<leftType> *)<a> <symbol>
\* *(<rightType> *)<b>", with a space between each type name and "*)".
C1_FormatHasSpaceBeforeStar ==
    (ret.call = "Statement.format" /\ ret.self.op \in BinaryOpKeys) =>
        LET e == BINARY_OPS(ret.self.op)
        IN /\ ret.val = "*(" \o Type_format(e[2]) \o " *)"
                        \o ToString(ret.self.c) \o " = *("
                        \o Type_format(e[3]) \o " *)" \o ToString(ret.self.a)
                        \o " " \o e[1] \o " *(" \o Type_format(e[4])
                        \o " *)" \o ToString(ret.self.b)
           /\ ret.self = [op |-> "ADD_F", a |-> 1, b |-> 2, c |-> 3]
                 => ret.val = "*(float *)3 = *(float *)1 + *(float *)2"

\* C1, amended: a statement whose op is a key of the binary-operator table
\* formats to "*(<resultType>*)<c> = *(<leftType>*)<a> <symbol>
\* *(<rightType>*)<b>": the lowercase type names of the table entry in the
\* order result, left, right, each directly followed by "*)", and the raw
\* operands; ADD_F with a=1, b=2, c=3 gives
\* "*(float*)3 = *(float*)1 + *(float*)2".
C1_FormatBinaryOp ==
    (ret.call = "Statement.format" /\ ret.self.op \in BinaryOpKeys) =>
        LET e == BINARY_OPS(ret.self.op)
        IN /\ ret.val = "*(" \o Type_format(e[2]) \o "*)"
                        \o ToString(ret.self.c) \o " = *("
                        \o Type_format(e[3]) \o "*)" \o ToString(ret.self.a)
                        \o " " \o e[1] \o " *(" \o Type_format(e[4])
                        \o "*)" \o ToString(ret.self.b)
           /\ ret.self = [op |-> "ADD_F", a |-> 1, b |-> 2, c |-> 3]
                 => ret.val = "*(float*)3 = *(float*)1 + *(float*)2"
           /\ ret.self = [op |-> "MUL_VF", a |-> -1, b |-> 2, c |-> 3]
                 => ret.val = "*(vector*)3 = *(float*)-1 *vf *(vector*)2"
           /\ ret.self = [op |-> "NE_S", a |-> 32767, b |-> -1,
                          c |-> -32768]
                 => ret.val = "*(float*)-32768 = *(string*)32767 != *(string*)-1"

C1_Witness ==
    /\ ret.call = "Statement.format"
    /\ ret.self = [op |-> "ADD_F", a |-> 1, b |-> 2, c |-> 3]
    /\ ret.val = "*(float*)3 = *(float*)1 + *(float*)2"

\* C2: Progs.load fails with a truncated-input error (struct.error) and
\* builds no Progs whenever the stream is shorter than the 56-byte header
\* or some lump's byte range (count bytes for strings and globals, count
\* fixed-width records for the others, from its offset) is not entirely
\* inside the stream.
C2_TruncatedLoadFails ==
    ret.call = "Progs.load" =>
        LET d == f.data
            offset(k) == WVal(Field("L", SubSeq(d, 8 * k + 1, 8 * k + 4)))
            count(k) == WVal(Field("L", SubSeq(d, 8 * k + 5, 8 * k + 8)))
            width == <<8, 8, 8, 36, 1, 1>>
            short == \/ Len(d) < 56
                     \/ \E k \in 1..6 :
                           /\ count(k) > 0
                           /\ offset(k) + count(k) * width[k] > Len(d)
        IN short => (ret.err = "struct.error" /\ pr = NoProgs)

\* C3: Statement.load on an 8-byte record whose u16 opcode field is n
\* succeeds for n in 0..65 with the Op member of value n (DONE = 0, ...,
\* BITOR = 65) and the operands a, b, c decoded as signed 16-bit values in
\* that order, and fails with an invalid-enum-value error (ValueError) for
\* n >= 66.
C3_StatementLoad ==
    (ret.call = "Statement.load" /\ Len(f.data) >= 8) =>
        LET n == RawU16(f.data, 1)
        IN IF n <= 65
           THEN /\ ret.err = ""
                /\ OpValue(ret.val.op) = n
                /\ (n = 0) = (ret.val.op = "DONE")
                /\ (n = 6) = (ret.val.op = "ADD_F")
                /\ (n = 52) = (ret.val.op = "CALL1")
                /\ (n = 65) = (ret.val.op = "BITOR")
                /\ ret.val.a = RawS16(f.data, 3)
                /\ ret.val.b = RawS16(f.data, 5)
                /\ ret.val.c = RawS16(f.data, 7)
           ELSE ret.err = "ValueError"

C3_Witness ==
    /\ ret.call = "Statement.load"
    /\ ret.err = ""
    /\ SubSeq(f.data, 1, 8) = <<65, 0, 255, 255, 255, 127, 0, 128>>
    /\ ret.val = [op |-> "BITOR", a |-> -1, b |-> 32767, c |-> -32768]

\* C4: every Function built by Function.load has len(parm_size) ==
\* num_parms and num_parms <= 8, parm_size being the first num_parms of the
\* 8 raw parm_size bytes.
C4_ParmSizeLength ==
    (ret.call = "Function.load" /\ ret.err = "") =>
        LET num_parms == Field("L", SubSeq(f.data, 25, 28))
        IN /\ WLess(num_parms, 9)
           /\ WEq(num_parms, Len(ret.val.parm_size))
           /\ ret.val.parm_size
                 = SubSeq(f.data, 29, 28 + Len(ret.val.parm_size))

\* C5: read_global returns a placeholder for what it cannot resolve. With 4
\* bytes at the offset and declared type FUNCTION it returns functions[idx]
\* when the u32 idx there is < len(functions), else (also for
\* idx == len(functions)) a text carrying idx; for the declared types
\* FIELD, POINTER, VOID and BAD it returns a text naming the type, at any
\* offset.
C5_ReadGlobalPlaceholder ==
    ret.call = "read_global" =>
        /\ ret.type_ \in {"FIELD", "POINTER", "VOID", "BAD"} =>
              /\ ret.res.err = ""
              /\ ret.res.kind = "text"
              /\ ret.res.val = CASE ret.type_ = "FIELD" -> "Unhandled type: 5"
                                 [] ret.type_ = "POINTER" -> "Unhandled type: 7"
                                 [] ret.type_ = "VOID" -> "Unhandled type: 0"
                                 [] ret.type_ = "BAD" -> "Unhandled type: -1"
        /\ (/\ ret.type_ = "FUNCTION"
            /\ ret.num >= 0
            /\ ret.num + 4 <= Len(pr.globals_)) =>
              LET lo == RawU16(pr.globals_, ret.num + 1)
                  hi == RawU16(pr.globals_, ret.num + 3)
              IN /\ ret.res.err = ""
                 /\ IF hi = 0 /\ lo < Len(pr.functions)
                    THEN /\ ret.res.kind = "Function"
                         /\ ret.res.val = pr.functions[lo + 1]
                    ELSE /\ ret.res.kind = "text"
                         /\ hi < 32768 =>
                               ret.res.val = "Invalid func "
                                             \o ToString(hi * 65536 + lo)
                         /\ (hi = 65535 /\ lo = 65535) =>
                               ret.res.val = "Invalid func 4294967295"

\* A function index equal to len(functions), of a Progs that has functions.
C5_Witness ==
    /\ ret.call = "read_global"
    /\ ret.type_ = "FUNCTION"
    /\ ret.num = 8
    /\ Len(pr.functions) = 2
    /\ Len(pr.globals_) >= 12
    /\ SubSeq(pr.globals_, 9, 12) = <<2, 0, 0, 0>>
    /\ ret.res.err = ""
    /\ ret.res.kind = "text"
    /\ ret.res.val = "Invalid func 2"

\* C6: for 0 <= i < len(strings), read_string(i) is the characters from
\* position i up to, not including, the first NUL at a position >= i, or
\* the rest of the buffer when there is none; "foo\0bar" gives "foo" at 0
\* and "bar" at 4.
C6_ReadString ==
    (ret.call = "read_string" /\ ~WNeg(ret.i)
        /\ WLess(ret.i, Len(pr.strings))) =>
        LET s == pr.strings
            i == WVal(ret.i)
            nuls == {j \in (i + 1)..Len(s) : s[j] = 0}
            end == IF nuls = {} THEN Len(s)
                   ELSE (CHOOSE j \in nuls : \A k \in nuls : j <= k) - 1
        IN /\ ret.err = ""
           /\ ret.val = [k \in 1..(end - i) |-> s[i + k]]
           /\ \A k \in 1..Len(ret.val) : ret.val[k] # 0
           /\ (s = <<102, 111, 111, 0, 98, 97, 114>> /\ i = 0)
                 => ret.val = <<102, 111, 111>>
           /\ (s = <<102, 111, 111, 0, 98, 97, 114>> /\ i = 4)
                 => ret.val = <<98, 97, 114>>

C6_Witness ==
    /\ ret.call = "read_string"
    /\ pr.strings = <<102, 111, 111, 0, 98, 97, 114>>
    /\ ret.i = WInt(4)
    /\ ret.val = <<98, 97, 114>>

\* C7: a string lookup whose offset is outside the strings buffer
\* (offset >= len(strings), or negative) fails: read_string reports an
\* error instead of returning text.
C7_BadOffsetFails ==
    (ret.call = "read_string"
        /\ (WNeg(ret.i) \/ ~WLess(ret.i, Len(pr.strings)))) =>
        ret.err # ""

\* C8: Definition.load on a record with packed type field p: save_global
\* is bit 15 of p, and the type is the member whose value is p without bit
\* 15 when that is in 0..7 (0x8002: FLOAT, saved; 0x0002: FLOAT, not
\* saved); otherwise the load fails with an invalid-enum-value error
\* (ValueError) and never gives the type BAD.
C8_DefinitionLoad ==
    (ret.call = "Definition.load" /\ Len(f.data) >= 8) =>
        LET p == RawU16(f.data, 1)
            bit15 == p >= 32768
            masked == IF bit15 THEN p - 32768 ELSE p
        IN IF masked <= 7
           THEN /\ ret.err = ""
                /\ ret.val.save_global = bit15
                /\ ret.val.type_ =
                      <<"VOID", "STRING", "FLOAT", "VECTOR", "ENTITY",
                        "FIELD", "FUNCTION", "POINTER">>[masked + 1]
                /\ p = 32770 => (ret.val.type_ = "FLOAT"
                                 /\ ret.val.save_global)
                /\ p = 2 => (ret.val.type_ = "FLOAT"
                             /\ ~ret.val.save_global)
           ELSE ret.err = "ValueError"

C8_Witness ==
    /\ ret.call = "Definition.load"
    /\ ret.err = ""
    /\ SubSeq(f.data, 1, 2) = <<2, 128>>
    /\ ret.val.type_ = "FLOAT"
    /\ ret.val.save_global

\* C9: Function.load decodes the first 4 bytes of the record as a signed
\* 32-bit first_statement (FF FF FF FF gives -1), and parm_start, locals,
\* profile, s_name, s_file as unsigned 32-bit values in that order.
C9_FirstStatementSigned ==
    (ret.call = "Function.load" /\ ret.err = "") =>
        /\ ret.val.first_statement = Field("l", SubSeq(f.data, 1, 4))
        /\ SubSeq(f.data, 1, 4) = <<255, 255, 255, 255>>
              => ret.val.first_statement = WInt(-1)
        /\ ret.val.parm_start = Field("L", SubSeq(f.data, 5, 8))
        /\ ret.val.locals_ = Field("L", SubSeq(f.data, 9, 12))
        /\ ret.val.profile = Field("L", SubSeq(f.data, 13, 16))
        /\ ret.val.s_name = Field("L", SubSeq(f.data, 17, 20))
        /\ ret.val.s_file = Field("L", SubSeq(f.data, 21, 24))

\* The place in lines of the line of statement number n: the (n + 1)-th
\* line of kind "stmt".
StmtLine(lines, n) ==
    CHOOSE j \in 1..Len(lines) :
        /\ lines[j].kind = "stmt"
        /\ Cardinality({i \in 1..(j - 1) : lines[i].kind = "stmt"}) = n

\* C10: once the statement section is printed, the statements' lines are
\* there in index order; every function whose first_statement n is a valid
\* statement index has a comment line naming its file and name right
\* before the line of statement n (among the comment lines before it,
\* when several functions start at n); and a statement no function starts
\* at has no comment line before it.
C10_EntryPointComments ==
    (pc.at \in {"globals", "done"}
        \/ (pc.at = "raised" /\ ret.call = "dump_progs_main")) =>
        LET body == SubSeq(out, Len(pr.functions) + 1, Len(out))
            stmts == SelectSeq(body, LAMBDA l : l.kind = "stmt")
            IsComment(j) == j >= 1 /\ body[j].kind = "comment"
        IN /\ Len(stmts) = Len(pr.statements)
           /\ \A n \in 1..Len(stmts) :
                 stmts[n].text = Statement_format(pr.statements[n])
           /\ \A i \in 1..Len(pr.functions) :
                 \A n \in 0..(Len(pr.statements) - 1) :
                    WEq(pr.functions[i].first_statement, n) =>
                       \E j \in 1..(StmtLine(body, n) - 1) :
                          /\ \A k \in j..(StmtLine(body, n) - 1) :
                                IsComment(k)
                          /\ body[j] =
                                [kind |-> "comment",
                                 file |-> Function_file(pr, pr.functions[i]),
                                 name |-> Function_name(pr, pr.functions[i])]
           /\ \A n \in 0..(Len(pr.statements) - 1) :
                 ~InStatementFuncs(pr, n) => ~IsComment(StmtLine(body, n) - 1)

====
